---------------------------- MODULE Spec2Model ----------------------------
(***************************************************************************)
(* A model of samples/python/web/avatar/app.py: the speech output queue    *)
(* (speakWithQueue, speakThread, speakText, speakSsml,                     *)
(* stopSpeakingInternal), the chat stream processor (handleUserQuery), the *)
(* chat context (initializeChatContext), the routes and the token refresh  *)
(* thread (refreshSpeechToken); and of the constructor of                  *)
(* intent.LanguageUnderstandingModel as its test expects it.               *)
(*                                                                         *)
(* Threads are interleaved at statement granularity.  list.append,         *)
(* list.pop(0), a read of a global and a store to a global are each one    *)
(* step.                                                                   *)
(***************************************************************************)
EXTENDS Integers, Sequences, FiniteSets, TLC

\* ------------------------------------------------------------------ bounds
\* Number of speakWithQueue calls a behaviour of Spec may issue.
MaxEnq == 2
\* Number of stopSpeakingInternal calls a behaviour of Spec may issue.
MaxStops == 1
\* Number of speakThread threads a behaviour of Spec may start.
MaxWorkers == 2

\* Number of handleUserQuery calls a behaviour of Spec may issue.
MaxQueries == 1

\* Number of events in the generated response streams of SpecChat.
MaxEvents == 1

\* The trailing silence handleUserQuery asks for with a quick reply.
QuickReplySilenceMs == 2000
\* The values of ending_silence_ms: the default and the quick reply's.
Silences == {0, QuickReplySilenceMs}

VARIABLES
    spoken_text_queue,  \* global spoken_text_queue: the texts waiting
    is_speaking,        \* global is_speaking
    last_speak_time,    \* global last_speak_time: None (0) or set (1)
    threads,            \* the speakThread threads started so far, in start order
    req,                \* the request thread inside speakWithQueue
    enqueued,           \* history: the texts passed to speakWithQueue, in call order
    popped,             \* history: the texts removed by spoken_text_queue.pop(0)
    synth_log,          \* history: the speakText calls, in the order they started
    stop_log,           \* history: one entry per stopSpeakingInternal call
    synth_failed,       \* history: a synthesis call ended canceled with an error
    messages,           \* global messages: the chat history
    data_sources,       \* global data_sources
    provider,           \* the completion provider's answer to the turn's request
    chat,               \* handleUserQuery: its position, the exception it raised
                        \* and its argument user_query
    pos,                \* the bytes of the response body the iterator has handed out
    chunk_string,       \* handleUserQuery's chunk_string while a record is incomplete
    yielded,            \* history: the display tokens handleUserQuery has yielded
    assistant_reply,    \* handleUserQuery's assistant_reply
    tool_content,       \* handleUserQuery's tool_content
    spoken_sentence,    \* handleUserQuery's spoken_sentence
    flushed,            \* history: the spoken_sentence each speakWithQueue call of
                        \* the turn found, before strip()
    silence_log,        \* history: the ending_silence_ms of each speakWithQueue
                        \* call a request thread of Spec makes, in call order
    spoken_fillers,     \* history: the quick replies handleUserQuery has given
                        \* to the speech output
    enable_quick_reply, \* global enable_quick_reply
    query_log,          \* history: one entry per handleUserQuery call made while
                        \* the speech queue is at work
    speech_token,       \* global speech_token
    refresher,          \* the thread of refreshSpeechToken: its position
    refresh_log,        \* history: one entry per call of the token endpoint
    cognitive_search_endpoint,    \* global, from the environment
    cognitive_search_api_key,     \* global, from the environment
    cognitive_search_index_name,  \* global, from the environment or the client
    chat_initiated,     \* global chat_initiated
    http,               \* how the last call of a route ended
    calls,              \* history: the number of route calls made
    lu_args,            \* the arguments of a LanguageUnderstandingModel(...) call
    lu_model            \* how that call ended

queueVars == <<spoken_text_queue, is_speaking, last_speak_time, threads, req,
               enqueued, popped, synth_log, stop_log, synth_failed>>

chatVars == <<messages, data_sources, provider, chat, pos, chunk_string,
              yielded, assistant_reply, tool_content, spoken_sentence,
              flushed>>

serviceVars == <<silence_log, spoken_fillers, enable_quick_reply,
                 query_log, speech_token, refresher, refresh_log,
                 cognitive_search_endpoint, cognitive_search_api_key,
                 cognitive_search_index_name, chat_initiated, http, calls>>

intentVars == <<lu_args, lu_model>>

\* ------------------------------------------------------------------- text
\* Text is a sequence of one-character strings; the bytes of the response
\* stream are one-character strings too, except the three bytes of the
\* UTF-8 form of the ideographic full stop.

LF == "\n"
\* U+3002, the ideographic full stop: one character, three bytes in UTF-8.
IdeographicFullStop == "U+3002"
Utf8FullStop == <<"xE3", "x80", "x82">>

\* str.strip() removes these from both ends.
Whitespace == {" ", LF}
Digits == {"0", "1", "2", "3", "4", "5", "6", "7", "8", "9"}

\* sentence_level_punctuations, line 45.  The fullwidth marks other than the
\* ideographic full stop take no part in the streams of this model.
sentence_level_punctuations == {".", "?", "!", ":", ";", IdeographicFullStop}

\* Fold a sequence of sequences into one.
RECURSIVE Concat(_)
Concat(ss) == IF ss = <<>> THEN <<>> ELSE Head(ss) \o Concat(Tail(ss))

\* str.startswith and str.endswith.
StartsWith(s, prefix) ==
    /\ Len(s) >= Len(prefix)
    /\ SubSeq(s, 1, Len(prefix)) = prefix

EndsWith(s, suffix) ==
    /\ Len(s) >= Len(suffix)
    /\ SubSeq(s, Len(s) - Len(suffix) + 1, Len(s)) = suffix

\* str.strip().
RECURSIVE LStrip(_)
LStrip(s) ==
    IF s # <<>> /\ Head(s) \in Whitespace THEN LStrip(Tail(s)) ELSE s

RECURSIVE RStrip(_)
RStrip(s) ==
    IF s # <<>> /\ s[Len(s)] \in Whitespace
    THEN RStrip(SubSeq(s, 1, Len(s) - 1))
    ELSE s

Strip(s) == RStrip(LStrip(s))

\* str.replace('\n', '').
RemoveNewlines(s) == SelectSeq(s, LAMBDA c : c # LF)

\* str.split('\n\n'): the pieces between the non-overlapping occurrences of
\* the separator, found left to right.
FirstSeparator(s) ==
    LET at == {i \in 1..(Len(s) - 1) : s[i] = LF /\ s[i + 1] = LF}
    IN  IF at = {} THEN 0 ELSE CHOOSE i \in at : \A j \in at : i <= j

RECURSIVE Split(_)
Split(s) ==
    IF FirstSeparator(s) = 0 THEN <<s>>
    ELSE <<SubSeq(s, 1, FirstSeparator(s) - 1)>>
         \o Split(SubSeq(s, FirstSeparator(s) + 2, Len(s)))

\* oyd_doc_regex, line 48: \[doc(\d+)\].  The index of the last character of
\* a match that starts at i, or 0 when none starts there.
RECURSIVE DigitsEnd(_, _)
DigitsEnd(s, i) ==
    IF i <= Len(s) /\ s[i] \in Digits THEN DigitsEnd(s, i + 1) ELSE i

DocMatchEnd(s, i) ==
    IF /\ i + 5 <= Len(s)
       /\ SubSeq(s, i, i + 3) = <<"[", "d", "o", "c">>
       /\ s[i + 4] \in Digits
       /\ DigitsEnd(s, i + 4) <= Len(s)
       /\ s[DigitsEnd(s, i + 4)] = "]"
    THEN DigitsEnd(s, i + 4)
    ELSE 0

\* oyd_doc_regex.search(s) is not None.
DocSearch(s) == \E i \in 1..Len(s) : DocMatchEnd(s, i) # 0

\* oyd_doc_regex.sub('', s): the matches removed, left to right.
RECURSIVE DocSubFrom(_, _)
DocSubFrom(s, i) ==
    IF i > Len(s) THEN <<>>
    ELSE IF DocMatchEnd(s, i) # 0
         THEN DocSubFrom(s, DocMatchEnd(s, i) + 1)
         ELSE <<s[i]>> \o DocSubFrom(s, i + 1)

DocSub(s) == DocSubFrom(s, 1)

\* bytes.decode(): UTF-8, strict.  A byte sequence that starts inside a
\* multi-byte character or ends before its last byte raises
\* UnicodeDecodeError (ok is FALSE).
Decodable(bytes) ==
    \A i \in 1..Len(bytes) :
        /\ bytes[i] = Utf8FullStop[1] =>
              /\ i + 2 <= Len(bytes)
              /\ bytes[i + 1] = Utf8FullStop[2]
              /\ bytes[i + 2] = Utf8FullStop[3]
        /\ bytes[i] = Utf8FullStop[2] => i > 1 /\ bytes[i - 1] = Utf8FullStop[1]
        /\ bytes[i] = Utf8FullStop[3] => i > 2 /\ bytes[i - 1] = Utf8FullStop[2]

Decode(bytes) ==
    IF ~Decodable(bytes) THEN [ok |-> FALSE, text |-> <<>>]
    ELSE LET leads == SelectSeq(bytes, LAMBDA b :
                          b \notin {Utf8FullStop[2], Utf8FullStop[3]})
         IN  [ok |-> TRUE,
              text |-> [i \in 1..Len(leads) |->
                          IF leads[i] = Utf8FullStop[1]
                          THEN IdeographicFullStop
                          ELSE leads[i]]]

\* ------------------------------------------------- the completion stream
\* The provider answers with server-sent events: "data: " + JSON + two line
\* feeds per event, and "data: [DONE]" + two line feeds at the end.  The JSON
\* of an event is written here in a reduced form that keeps its delimiters
\* and its string escapes:
\*     {e}            "choices": []
\*     {p<delta>}     "choices": [{"delta": <delta>}]
\*     {m<delta>}     "choices": [{"messages": [{"delta": <delta>}]}]
\* where <delta> is
\*     r              {"role": "assistant"}
\*     n              {"content": null}
\*     c"<chars>"     {"content": "<chars>"}
\*     t"<chars>"     {"role": "tool", "content": "<chars>"}
\* and a line feed inside <chars> is written \n (two characters), as JSON
\* requires.

Quote == "\""
Backslash == "\\"
DataPrefix == <<"d", "a", "t", "a", ":">>
DoneMarker == <<"[", "D", "O", "N", "E", "]">>

\* An event the provider sends.
Event(shape, tag, content) == [shape |-> shape, tag |-> tag, content |-> content]

\* json.dumps of a string's characters, as the provider writes them.
RECURSIVE JsonEscape(_)
JsonEscape(s) ==
    IF s = <<>> THEN <<>>
    ELSE (IF Head(s) = LF THEN <<Backslash, "n">> ELSE <<Head(s)>>)
         \o JsonEscape(Tail(s))

\* The provider's JSON text of an event.
JsonText(ev) ==
    IF ev.shape = "e" THEN <<"{", "e", "}">>
    ELSE <<"{", ev.shape, ev.tag>>
         \o (IF ev.tag \in {"c", "t"}
             THEN <<Quote>> \o JsonEscape(ev.content) \o <<Quote>>
             ELSE <<>>)
         \o <<"}">>

\* str.encode(): the UTF-8 bytes of a text.
RECURSIVE Utf8(_)
Utf8(s) ==
    IF s = <<>> THEN <<>>
    ELSE (IF Head(s) = IdeographicFullStop THEN Utf8FullStop ELSE <<Head(s)>>)
         \o Utf8(Tail(s))

\* The bytes of one event on the wire.
EventBytes(ev) == Utf8(DataPrefix \o <<" ">> \o JsonText(ev) \o <<LF, LF>>)

DoneBytes == DataPrefix \o <<" ">> \o DoneMarker \o <<LF, LF>>

\* The body of a response: the events, and how the stream ends: with the
\* end marker ("done"), closed after the last event ("closed"), or cut
\* before its last byte ("truncated").
Body(events, ending) ==
    LET all == Concat([i \in 1..Len(events) |-> EventBytes(events[i])])
    IN  CASE ending = "done" -> all \o DoneBytes
          [] ending = "closed" -> all
          [] ending = "truncated" ->
                SubSeq(all \o DoneBytes, 1, Len(all \o DoneBytes) - 1)

\* The characters of a JSON string body, unescaped; a raw line feed, a raw
\* quote or a dangling backslash is an error.
RECURSIVE JsonUnescape(_)
JsonUnescape(s) ==
    IF s = <<>> THEN [ok |-> TRUE, text |-> <<>>]
    ELSE IF Head(s) = Backslash
         THEN IF Len(s) >= 2 /\ s[2] = "n"
              THEN LET rest == JsonUnescape(SubSeq(s, 3, Len(s)))
                   IN  [ok |-> rest.ok, text |-> <<LF>> \o rest.text]
              ELSE [ok |-> FALSE, text |-> <<>>]
         ELSE IF Head(s) \in {LF, Quote}
              THEN [ok |-> FALSE, text |-> <<>>]
              ELSE LET rest == JsonUnescape(Tail(s))
                   IN  [ok |-> rest.ok, text |-> <<Head(s)>> \o rest.text]

JsonError == [ok |-> FALSE, shape |-> "", tag |-> "", content |-> <<>>]

\* json.loads, line 366: the event a text holds, or an error
\* (json.JSONDecodeError) when the text is not the JSON of an event.
JsonLoads(s) ==
    IF Len(s) < 3 \/ s[1] # "{" \/ s[Len(s)] # "}" THEN JsonError
    ELSE LET body == SubSeq(s, 2, Len(s) - 1)
         IN  IF body = <<"e">>
             THEN [ok |-> TRUE, shape |-> "e", tag |-> "", content |-> <<>>]
             ELSE IF Len(body) < 2 \/ body[1] \notin {"p", "m"} THEN JsonError
             ELSE IF body[2] \in {"r", "n"}
                  THEN IF Len(body) = 2
                       THEN [ok |-> TRUE, shape |-> body[1], tag |-> body[2],
                             content |-> <<>>]
                       ELSE JsonError
             ELSE IF /\ body[2] \in {"c", "t"}
                     /\ Len(body) >= 4
                     /\ body[3] = Quote
                     /\ body[Len(body)] = Quote
                  THEN LET str == JsonUnescape(SubSeq(body, 4, Len(body) - 1))
                       IN  IF str.ok
                           THEN [ok |-> TRUE, shape |-> body[1], tag |-> body[2],
                                 content |-> str.text]
                           ELSE JsonError
                  ELSE JsonError

\* ------------------------------------------------------- the speech queue

\* A speakThread closure: its position, the text it holds and the
\* ending_silence_ms it captured (nonlocal) from the call that started it.
NewThread(silence) == [pc |-> "start", text |-> 0, ending_silence_ms |-> silence]

SetThread(i, t) == [threads EXCEPT ![i] = t]

\* The threads that have been started and have neither returned nor died.
Alive == {i \in 1..Len(threads) : threads[i].pc \notin {"done", "dead"}}

\* The threads inside speech_synthesizer.speak_ssml_async(ssml).get().
InFlight == {i \in 1..Len(threads) : threads[i].pc = "speak"}

\* speakWithQueue, line 427: spoken_text_queue.append(text).
Append_text(text, silence) ==
    /\ req.pc = "idle"
    /\ Len(enqueued) < MaxEnq
    /\ spoken_text_queue' = Append(spoken_text_queue, text)
    /\ enqueued' = Append(enqueued, text)
    /\ req' = [pc |-> "check", ending_silence_ms |-> silence]
    /\ silence_log' = Append(silence_log, silence)
    /\ UNCHANGED <<is_speaking, last_speak_time, threads, popped, synth_log,
                   stop_log, synth_failed,
                   chatVars, spoken_fillers, enable_quick_reply, query_log,
                   speech_token, refresher, refresh_log,
                   cognitive_search_endpoint, cognitive_search_api_key,
                   cognitive_search_index_name, chat_initiated, http, calls,
                   intentVars>>

\* speakWithQueue, lines 428 and 442-443: if not is_speaking, start a
\* speakThread.  The thread itself writes is_speaking (line 436).
StartIfNotSpeaking ==
    /\ req.pc = "check"
    /\ IF ~is_speaking
       THEN /\ Len(threads) < MaxWorkers
            /\ threads' = Append(threads, NewThread(req.ending_silence_ms))
       ELSE threads' = threads
    /\ req' = [pc |-> "idle", ending_silence_ms |-> 0]
    /\ UNCHANGED <<spoken_text_queue, is_speaking, last_speak_time, enqueued,
                   popped, synth_log, stop_log, synth_failed,
                   chatVars, serviceVars, intentVars>>

\* What the history keeps of a stopSpeakingInternal call: the texts it
\* discarded, the lengths of the other histories, and where the request
\* thread of speakWithQueue stood.
StopRecord ==
    [pending |-> spoken_text_queue, enqueued |-> Len(enqueued),
     popped |-> Len(popped), synth |-> Len(synth_log), req |-> req.pc]

\* stopSpeakingInternal, lines 479-481: spoken_text_queue = [].
StopSpeakingInternal ==
    /\ Len(stop_log) < MaxStops
    /\ spoken_text_queue' = <<>>
    /\ stop_log' = Append(stop_log, StopRecord)
    /\ UNCHANGED <<is_speaking, last_speak_time, threads, req, enqueued,
                   popped, synth_log, synth_failed,
                   chatVars, serviceVars, intentVars>>

\* handleUserQuery, lines 313-315, while the speech queue is at work: the
\* speech of the turn before is stopped if is_speaking says there is any.
\* The test and the call are one step: the call's effect depends on nothing
\* the test read.
StopPreviousSpeaking ==
    /\ Len(query_log) < MaxQueries
    /\ spoken_text_queue' = IF is_speaking THEN <<>> ELSE spoken_text_queue
    /\ query_log' = Append(query_log,
                        [enqueued |-> Len(enqueued), popped |-> Len(popped),
                         stopped |-> is_speaking])
    /\ UNCHANGED <<is_speaking, last_speak_time, threads, req, enqueued,
                   popped, synth_log, stop_log, synth_failed,
                   chatVars, silence_log, spoken_fillers, enable_quick_reply,
                   speech_token, refresher, refresh_log,
                   cognitive_search_endpoint, cognitive_search_api_key,
                   cognitive_search_index_name, chat_initiated, http, calls,
                   intentVars>>

\* speakThread, line 436: is_speaking = True.
ThreadBegin(i) ==
    /\ threads[i].pc = "start"
    /\ is_speaking' = TRUE
    /\ threads' = SetThread(i, [threads[i] EXCEPT !.pc = "test"])
    /\ UNCHANGED <<spoken_text_queue, last_speak_time, req, enqueued, popped,
                   synth_log, stop_log, synth_failed,
                   chatVars, serviceVars, intentVars>>

\* speakThread, line 437: while len(spoken_text_queue) > 0.
ThreadTest(i) ==
    /\ threads[i].pc = "test"
    /\ threads' = SetThread(i, [threads[i] EXCEPT
                       !.pc = IF Len(spoken_text_queue) > 0 THEN "pop" ELSE "clear"])
    /\ UNCHANGED <<spoken_text_queue, is_speaking, last_speak_time, req,
                   enqueued, popped, synth_log, stop_log, synth_failed,
                   chatVars, serviceVars, intentVars>>

\* speakThread, line 438: text = spoken_text_queue.pop(0).  pop from an
\* empty list raises IndexError, which ends the thread.
ThreadPop(i) ==
    /\ threads[i].pc = "pop"
    /\ IF spoken_text_queue = <<>>
       THEN /\ threads' = SetThread(i, [threads[i] EXCEPT !.pc = "dead"])
            /\ UNCHANGED <<spoken_text_queue, popped>>
       ELSE /\ threads' = SetThread(i, [threads[i] EXCEPT
                              !.pc = "call", !.text = Head(spoken_text_queue)])
            /\ spoken_text_queue' = Tail(spoken_text_queue)
            /\ popped' = Append(popped, Head(spoken_text_queue))
    /\ UNCHANGED <<is_speaking, last_speak_time, req, enqueued, synth_log,
                   stop_log, synth_failed,
                   chatVars, serviceVars, intentVars>>

\* speakThread, line 439, to speakSsml, line 469: speakText builds the
\* markup with the closure's ending_silence_ms and the synthesis call starts.
ThreadCall(i) ==
    /\ threads[i].pc = "call"
    /\ synth_log' = Append(synth_log,
                        [text |-> threads[i].text,
                         ending_silence_ms |-> threads[i].ending_silence_ms,
                         overlaps |-> InFlight # {}])
    /\ threads' = SetThread(i, [threads[i] EXCEPT !.pc = "speak"])
    /\ UNCHANGED <<spoken_text_queue, is_speaking, last_speak_time, req,
                   enqueued, popped, stop_log, synth_failed,
                   chatVars, serviceVars, intentVars>>

\* speakSsml, lines 469-476, and speakThread, line 440: the synthesis call
\* returns.  Canceled with an error detail raises, which ends the thread;
\* otherwise last_speak_time is set and the loop goes on.
ThreadReturn(i) ==
    /\ threads[i].pc = "speak"
    /\ \/ /\ threads' = SetThread(i, [threads[i] EXCEPT !.pc = "test", !.text = 0])
          /\ last_speak_time' = 1
          /\ UNCHANGED synth_failed
       \/ /\ threads' = SetThread(i, [threads[i] EXCEPT !.pc = "dead"])
          /\ synth_failed' = TRUE
          /\ UNCHANGED last_speak_time
    /\ UNCHANGED <<spoken_text_queue, is_speaking, req, enqueued, popped,
                   synth_log, stop_log,
                   chatVars, serviceVars, intentVars>>

\* speakThread, line 441: is_speaking = False, and the thread returns.
ThreadClear(i) ==
    /\ threads[i].pc = "clear"
    /\ is_speaking' = FALSE
    /\ threads' = SetThread(i, [threads[i] EXCEPT !.pc = "done"])
    /\ UNCHANGED <<spoken_text_queue, last_speak_time, req, enqueued, popped,
                   synth_log, stop_log, synth_failed,
                   chatVars, serviceVars, intentVars>>

\* The threads started so far.
Threads == 1..Len(threads)

QueueInit ==
    /\ spoken_text_queue = <<>>
    /\ is_speaking = FALSE
    /\ last_speak_time = 0
    /\ threads = <<>>
    /\ req = [pc |-> "idle", ending_silence_ms |-> 0]
    /\ enqueued = <<>>
    /\ popped = <<>>
    /\ synth_log = <<>>
    /\ stop_log = <<>>
    /\ synth_failed = FALSE

\* ------------------------------------------------ the chat stream processor

\* enable_quick_reply, line 46: the value the source file sets.  No code of
\* the program assigns the global again.
EnableQuickReplyDefault == FALSE

\* quick_replies, line 47.
quick_replies == {"Let me take a look.", "Let me check.", "One moment, please."}

\* The text of the user's query; handleUserQuery only stores it.  The query
\* of the k-th request to the service is "q" followed by k marks, which
\* tells the requests apart in the history.
UserQuery(k) == <<"q">> \o [i \in 1..k |-> "'"]

\* A Python value that may be None.
None == [some |-> FALSE, val |-> <<>>]
Some(v) == [some |-> TRUE, val |-> v]

\* Lines 358 and 360: the chunk ends a record.
EndsRecord(s) ==
    \/ EndsWith(s, <<"}", LF, LF>>)
    \/ EndsWith(s, DoneMarker \o <<LF, LF>>)

\* Line 365: the line holds an event.
IsDataLine(line) ==
    /\ StartsWith(line, DataPrefix)
    /\ ~EndsWith(line, DoneMarker)

\* IsToolDelta with the role test lost: a tool delta is taken for a content
\* delta.
IsToolDelta_content(json) == FALSE

\* Line 375: the delta is a tool delta.
IsToolDelta(json) == json.tag = "t"

\* Lines 380-381: a token with a document reference has the references
\* removed and is stripped.
StripDocs(token) == IF DocSearch(token) THEN Strip(DocSub(token)) ELSE token

\* Lines 367-383: what an event gives.  raised: an exception (KeyError) left
\* the try block; tool: the event set tool_content; token: response_token.
Extract(ds, json) ==
    LET nothing == [raised |-> FALSE, tool |-> None, token |-> None]
    IN  IF json.shape = "e" THEN nothing
        ELSE IF ~ds
             THEN IF json.shape # "p"
                  THEN [nothing EXCEPT !.raised = TRUE]
                  ELSE IF json.tag \in {"c", "t"}
                       THEN [nothing EXCEPT !.token = Some(json.content)]
                       ELSE nothing
             ELSE IF json.shape # "m"
                  THEN [nothing EXCEPT !.raised = TRUE]
                  ELSE IF IsToolDelta(json)
                       THEN [nothing EXCEPT !.tool = Some(json.content)]
                       ELSE IF json.tag \in {"c", "t"}
                            THEN IF StripDocs(json.content) = DoneMarker
                                 THEN nothing
                                 ELSE [nothing EXCEPT
                                          !.token = Some(StripDocs(json.content))]
                            ELSE nothing

\* Lines 390-391 and 398-399: speakWithQueue(spoken_sentence.strip()) and
\* spoken_sentence = ''.  calls collects the texts passed to speakWithQueue.
Flush(st) ==
    [st EXCEPT !.calls = Append(@, Strip(st.spoken_sentence)),
               !.found = Append(@, st.spoken_sentence),
               !.spoken_sentence = <<>>]

\* Line 389: the token is a line break.
IsLineBreak(token) == token \in {<<LF>>, <<LF, LF>>}

\* Lines 395-397: the token ends a sentence.
EndsSentence(token) ==
    /\ Len(token) \in {1, 2}
    /\ \E punctuation \in sentence_level_punctuations :
           StartsWith(token, <<punctuation>>)

\* Lines 385-400: a response_token that is not None is yielded, added to the
\* reply and to the sentence, and may flush the sentence.
Emit(st, token) ==
    LET st1 == [st EXCEPT !.yielded = Append(@, token),
                          !.assistant_reply = @ \o token]
    IN  IF IsLineBreak(token) THEN Flush(st1)
        ELSE LET st2 == [st1 EXCEPT
                            !.spoken_sentence = @ \o RemoveNewlines(token)]
             IN  IF EndsSentence(RemoveNewlines(token)) THEN Flush(st2) ELSE st2

\* Caught with the try block lost: no exception is caught.
Caught_never(exception) == FALSE

\* Lines 401-403: except Exception catches the exceptions of the try block.
Caught(exception) == exception \in {"JSONDecodeError", "KeyError"}

\* An exception raised while a line is processed: caught, it is printed and
\* the line is given up; otherwise it leaves handleUserQuery.
Throw(st, exception) ==
    IF Caught(exception) THEN st ELSE [st EXCEPT !.error = exception]

\* Lines 364-403: one line of a chunk.
ProcessLine(ds, st, line) ==
    IF ~IsDataLine(line) THEN st
    ELSE LET json == JsonLoads(Strip(SubSeq(line, Len(DataPrefix) + 1, Len(line))))
         IN  IF ~json.ok THEN Throw(st, "JSONDecodeError")
             ELSE LET got == Extract(ds, json)
                  IN  IF got.raised THEN Throw(st, "KeyError")
                      ELSE IF got.tool.some
                           THEN [st EXCEPT !.tool_content = got.tool.val]
                           ELSE IF got.token.some THEN Emit(st, got.token.val)
                                ELSE st

\* Line 363: for line in chunk_string.split('\n\n').
RECURSIVE ProcessLines(_, _, _)
ProcessLines(ds, st, lines) ==
    IF lines = <<>> \/ st.error # "" THEN st
    ELSE ProcessLines(ds, ProcessLine(ds, st, Head(lines)), Tail(lines))

\* The locals of handleUserQuery that a chunk's lines read and write.
Locals ==
    [yielded |-> yielded, assistant_reply |-> assistant_reply,
     tool_content |-> tool_content, spoken_sentence |-> spoken_sentence,
     calls |-> <<>>, found |-> <<>>, error |-> ""]

\* speakWithQueue, lines 423-443, called once per text, in order, by the
\* request thread with no step of another thread in between: each call
\* appends its text and, is_speaking being false, starts a speakThread.
SpeakWithQueueAll(texts) ==
    /\ spoken_text_queue' = spoken_text_queue \o texts
    /\ enqueued' = enqueued \o texts
    /\ threads' = IF is_speaking THEN threads
                  ELSE threads \o [i \in 1..Len(texts) |-> NewThread(0)]

\* Store the locals after a chunk's lines and make the speakWithQueue calls.
Commit(st) ==
    /\ yielded' = st.yielded
    /\ assistant_reply' = st.assistant_reply
    /\ tool_content' = st.tool_content
    /\ spoken_sentence' = st.spoken_sentence
    /\ flushed' = flushed \o st.found
    /\ SpeakWithQueueAll(st.calls)

Raise(exception) == chat' = [chat EXCEPT !.pc = "raised", !.error = exception]

DataSourcesConfigured == Len(data_sources) > 0

\* NotOk with the status check lost: no response is refused.
NotOk_never(response) == FALSE

\* Line 345: the response is refused.
NotOk(response) == ~response.ok

\* handleUserQuery, lines 306-346: the user message is appended, the speech
\* of the turn before is stopped, and the request is made.  Line 320 calls
\* speak, the view function of lines 180-188 that takes no argument, with two
\* arguments: the call raises TypeError before anything is spoken, and the
\* exception leaves handleUserQuery.
ChatBegin ==
    /\ chat.pc = "idle"
    /\ messages' = Append(messages, [role |-> "user",
                                     content |-> chat.user_query])
    /\ IF is_speaking
       THEN /\ spoken_text_queue' = <<>>
            /\ stop_log' = Append(stop_log, StopRecord)
       ELSE UNCHANGED <<spoken_text_queue, stop_log>>
    /\ IF DataSourcesConfigured /\ enable_quick_reply
       THEN Raise("TypeError")
       ELSE IF NotOk(provider)
            THEN Raise("Exception")
            ELSE chat' = [chat EXCEPT !.pc = "iter"]
    /\ UNCHANGED <<is_speaking, last_speak_time, threads, req, enqueued, popped,
                   synth_log, synth_failed, data_sources, provider, pos,
                   chunk_string, yielded, assistant_reply, tool_content,
                   spoken_sentence, flushed, serviceVars, intentVars>>

\* The iterator hands out the next n bytes of the body as one chunk and the
\* chunk is decoded (lines 356 and 361).  While the text read so far does
\* not end a record the next chunk is awaited; once it does, its lines are
\* processed (lines 363-403).
Receive(n, so_far, next_pc) ==
    LET decoded == Decode(SubSeq(provider.body, pos + 1, pos + n))
        text == so_far \o decoded.text
    IN  /\ pos' = pos + n
        /\ IF ~decoded.ok
           THEN /\ Raise("UnicodeDecodeError")
                /\ UNCHANGED <<chunk_string, yielded, assistant_reply,
                               tool_content, spoken_sentence, flushed,
                               spoken_text_queue, enqueued, threads>>
           ELSE IF ~EndsRecord(text)
                THEN /\ chat' = [chat EXCEPT !.pc = "more"]
                     /\ chunk_string' = text
                     /\ UNCHANGED <<yielded, assistant_reply, tool_content,
                                    spoken_sentence, flushed,
                                    spoken_text_queue, enqueued, threads>>
                ELSE LET st == ProcessLines(DataSourcesConfigured, Locals,
                                            Split(text))
                     IN  /\ IF st.error # "" THEN Raise(st.error)
                            ELSE chat' = [chat EXCEPT !.pc = next_pc]
                         /\ chunk_string' = <<>>
                         /\ Commit(st)
        /\ UNCHANGED <<is_speaking, last_speak_time, req, popped, synth_log,
                       stop_log, synth_failed, messages, data_sources, provider,
                       serviceVars, intentVars>>

\* Line 350: for chunk in iterator.  requests hands out no empty chunk.
ReadChunk ==
    /\ chat.pc = "iter"
    /\ \E n \in 1..(Len(provider.body) - pos) : Receive(n, <<>>, "iter")

\* Lines 360-361: chunk_string += next(iterator).decode().  At the end of
\* the stream next raises StopIteration, which leaves the generator as
\* RuntimeError.
ReadMore ==
    /\ chat.pc = "more"
    /\ IF pos = Len(provider.body)
       THEN /\ Raise("RuntimeError")
            /\ UNCHANGED <<queueVars, messages, data_sources, provider, pos,
                           chunk_string, yielded, assistant_reply,
                           tool_content, spoken_sentence, flushed,
                           serviceVars, intentVars>>
       ELSE \E n \in 1..(Len(provider.body) - pos) :
                Receive(n, chunk_string, "iter")

\* TurnMessages with the two messages in the other order.
TurnMessages_swapped(tool, reply) ==
    <<[role |-> "assistant", content |-> reply]>>
       \o (IF DataSourcesConfigured
           THEN <<[role |-> "tool", content |-> tool]>>
           ELSE <<>>)

\* Lines 409-420: the messages a turn appends when its stream is exhausted,
\* the tool message, with data sources, and then the assistant message.
TurnMessages(tool, reply) ==
    (IF DataSourcesConfigured
     THEN <<[role |-> "tool", content |-> tool]>>
     ELSE <<>>)
       \o <<[role |-> "assistant", content |-> reply]>>

\* Lines 405-420: the stream is exhausted.  The rest of the sentence is
\* spoken, and the tool and assistant messages are appended.
ChatFinish ==
    /\ chat.pc = "iter"
    /\ pos = Len(provider.body)
    /\ IF spoken_sentence # <<>>
       THEN /\ SpeakWithQueueAll(<<Strip(spoken_sentence)>>)
            /\ flushed' = Append(flushed, spoken_sentence)
       ELSE UNCHANGED <<spoken_text_queue, enqueued, threads, flushed>>
    /\ spoken_sentence' = <<>>
    /\ messages' = messages \o TurnMessages(tool_content, assistant_reply)
    /\ chat' = [chat EXCEPT !.pc = "done"]
    /\ UNCHANGED <<is_speaking, last_speak_time, req, popped, synth_log,
                   stop_log, synth_failed, data_sources, provider, pos,
                   chunk_string, yielded, assistant_reply, tool_content,
                   serviceVars, intentVars>>

\* No chat turn: the state of the chat variables in Spec.
ChatIdle ==
    /\ messages = <<>>
    /\ data_sources = <<>>
    /\ provider = [ok |-> TRUE, events |-> <<>>, ending |-> "done", body |-> <<>>]
    /\ chat = [pc |-> "none", error |-> "", user_query |-> <<>>]
    /\ pos = 0
    /\ chunk_string = <<>>
    /\ yielded = <<>>
    /\ assistant_reply = <<>>
    /\ tool_content = <<>>
    /\ spoken_sentence = <<>>
    /\ flushed = <<>>

\* initializeChatContext, lines 255-295: the data sources and the history
\* for a system prompt, with the search resource configured or not.
SystemPrompt == <<"s">>

InitialDataSources(configured) ==
    IF configured THEN <<[roleInformation |-> SystemPrompt]>> ELSE <<>>

InitialMessages(configured) ==
    IF Len(InitialDataSources(configured)) = 0
    THEN <<[role |-> "system", content |-> SystemPrompt]>>
    ELSE <<>>

\* ------------------------------------------------- the session and routes

\* Number of route calls a behaviour of SpecSession or SpecService may make.
MaxCalls == 3
\* Number of calls of the token endpoint the refresh thread may make.
MaxRefresh == 3

\* A Python value is truthy: None and '' (both written "" here) are not.
Truthy(v) == v # ""

\* SearchConfigured with "or" in the place of "and": one setting is enough.
SearchConfigured_any ==
    \/ Truthy(cognitive_search_endpoint)
    \/ Truthy(cognitive_search_api_key)
    \/ Truthy(cognitive_search_index_name)

\* Line 265: the search resource is configured.
SearchConfigured ==
    /\ Truthy(cognitive_search_endpoint)
    /\ Truthy(cognitive_search_api_key)
    /\ Truthy(cognitive_search_index_name)

\* The system prompts a client sends in the SystemPrompt header.
Prompts == {<<"s">>, <<"t">>}

\* initializeChatContext, lines 255-295.
InitializeChatContext(system_prompt) ==
    /\ data_sources' = IF SearchConfigured
                       THEN <<[roleInformation |-> system_prompt]>>
                       ELSE <<>>
    /\ messages' = IF Len(data_sources') = 0
                   THEN <<[role |-> "system", content |-> system_prompt]>>
                   ELSE <<>>

\* A text that is not a token of the token endpoint.
Text(t) == [text |-> t, serial |-> 0]

\* The response a route returns, and a call that ends with an exception
\* leaving the view function (Flask answers 500).
Response(route, body, status) == [route |-> route, status |-> status, body |-> body]
Unhandled(route, exception) ==
    [route |-> route, status |-> 500, body |-> Text(exception)]

\* clearChatHistory, lines 220-225.
ClearChatHistory(system_prompt) ==
    /\ calls < MaxCalls
    /\ calls' = calls + 1
    /\ InitializeChatContext(system_prompt)
    /\ chat_initiated' = TRUE
    /\ http' = Response("clearHistory", Text("Chat history cleared."), 200)
    /\ UNCHANGED <<queueVars, provider, chat, pos, chunk_string, yielded,
                   assistant_reply, tool_content, spoken_sentence, flushed,
                   silence_log, spoken_fillers,
                   enable_quick_reply, query_log, speech_token, refresher, refresh_log,
                   cognitive_search_endpoint, cognitive_search_api_key,
                   cognitive_search_index_name, intentVars>>

\* chat, lines 210-217: the context is initialized by the first call, and the
\* response streams handleUserQuery(user_query), whose locals start empty
\* (lines 336-338).  response is the completion provider's answer to the
\* request the turn will make.  One conversation is active at a time.
Chat(system_prompt, user_query, response) ==
    /\ calls < MaxCalls
    /\ chat.pc \in {"none", "done", "raised"}
    /\ calls' = calls + 1
    /\ IF ~chat_initiated
       THEN InitializeChatContext(system_prompt)
       ELSE UNCHANGED <<messages, data_sources>>
    /\ chat_initiated' = TRUE
    /\ provider' = response
    /\ chat' = [pc |-> "idle", error |-> "", user_query |-> user_query]
    /\ pos' = 0
    /\ chunk_string' = <<>>
    /\ yielded' = <<>>
    /\ assistant_reply' = <<>>
    /\ tool_content' = <<>>
    /\ spoken_sentence' = <<>>
    /\ flushed' = <<>>
    /\ http' = Response("chat", Text("stream"), 200)
    /\ UNCHANGED <<queueVars, silence_log, spoken_fillers,
                   enable_quick_reply, query_log, speech_token, refresher, refresh_log,
                   cognitive_search_endpoint, cognitive_search_api_key,
                   cognitive_search_index_name, intentVars>>

\* Where a call of connectAvatar can fail inside its try block: building the
\* speech configuration and the synthesizer (lines 102-111), parsing the ICE
\* token (113), reading the headers (114-158), opening the connection
\* (160-161), the synthesis call raising (163), the synthesis canceled with
\* an error (165-170), reading the turn start message (171-172).
ConnectFailures ==
    {"none", "speech_config", "ice_token", "headers", "connection",
     "speak_text", "canceled", "turn_start"}

\* connectAvatar's local speech_sythesis_result is bound once line 163 has
\* returned: a failure of a later step finds it bound.
SynthesisResultBound(fail) == fail \in {"canceled", "turn_start"}

\* connectAvatar, lines 101-177: the response.  The except clause reads
\* speech_sythesis_result; unbound, the read raises UnboundLocalError, which
\* leaves the route.
ConnectAvatarResponse(fail) ==
    IF fail = "none" THEN Response("connectAvatar", Text("remoteSdp"), 200)
    ELSE IF SynthesisResultBound(fail)
         THEN Response("connectAvatar", Text("Result ID. Error message"), 400)
         ELSE Unhandled("connectAvatar", "UnboundLocalError")

\* connectAvatar, lines 83-177.  A CognitiveSearchIndexName header that is
\* not empty replaces the index name (line 96).
ConnectAvatar(index_header, fail) ==
    /\ calls < MaxCalls
    /\ calls' = calls + 1
    /\ cognitive_search_index_name' =
          IF Truthy(index_header) THEN index_header
          ELSE cognitive_search_index_name
    /\ http' = ConnectAvatarResponse(fail)
    /\ UNCHANGED <<queueVars, chatVars, silence_log, spoken_fillers,
                   enable_quick_reply, query_log, speech_token, refresher,
                   refresh_log, cognitive_search_endpoint,
                   cognitive_search_api_key, chat_initiated, intentVars>>

\* Where a call of speak can fail inside its try block: decoding the request
\* body (line 184), and speakSsml (185), which raises when the SDK raises or
\* the synthesis is canceled with an error (lines 469-475).
SpeakFailures == {"none", "decode", "speak_ssml"}

\* speak's local result_id is bound once line 185 has returned.
ResultIdBound(fail) == fail \notin {"decode", "speak_ssml"}

\* speak, lines 183-188: the response.  The except clause reads result_id.
SpeakResponse(fail) ==
    IF fail = "none" THEN Response("speak", Text("result_id"), 200)
    ELSE IF ResultIdBound(fail)
         THEN Response("speak", Text("Result ID. Error message"), 400)
         ELSE Unhandled("speak", "UnboundLocalError")

\* speak, lines 180-188.
Speak(fail) ==
    /\ calls < MaxCalls
    /\ calls' = calls + 1
    /\ http' = SpeakResponse(fail)
    /\ UNCHANGED <<queueVars, chatVars, silence_log, spoken_fillers,
                   enable_quick_reply, query_log, speech_token, refresher,
                   refresh_log, cognitive_search_endpoint,
                   cognitive_search_api_key, cognitive_search_index_name,
                   chat_initiated, intentVars>>

\* getSpeechToken, lines 70-75.
GetSpeechToken ==
    /\ calls < MaxCalls
    /\ calls' = calls + 1
    /\ http' = Response("getSpeechToken", speech_token, 200)
    /\ UNCHANGED <<queueVars, chatVars, silence_log, spoken_fillers,
                   enable_quick_reply, query_log, speech_token, refresher,
                   refresh_log, cognitive_search_endpoint,
                   cognitive_search_api_key, cognitive_search_index_name,
                   chat_initiated, intentVars>>

\* speech_token before the first refresh (None, line 40), the token the
\* endpoint issues to its k-th call, and the error text it answers when it
\* refuses the k-th call.
NoToken == Text("")
IssuedToken(k) == [text |-> "token", serial |-> k]
ErrorText(k) == [text |-> "error", serial |-> k]

\* How a call of the token endpoint ends: a 2xx response with a token, a
\* response with another status and an error text, or no response
\* (requests.post raises).
RefreshOutcomes == {"issued", "refused", "unreachable"}

\* refreshSpeechToken, line 251: speech_token = requests.post(...).text.
\* The text of the response is stored whatever its status; an exception of
\* requests.post leaves the function, which ends the thread.
RefreshPost(outcome) ==
    /\ refresher = "post"
    /\ Len(refresh_log) < MaxRefresh
    /\ LET k == Len(refresh_log) + 1
       IN  speech_token' = CASE outcome = "issued" -> IssuedToken(k)
                             [] outcome = "refused" -> ErrorText(k)
                             [] outcome = "unreachable" -> speech_token
    /\ refresher' = IF outcome = "unreachable" THEN "dead" ELSE "sleep"
    /\ refresh_log' = Append(refresh_log,
                          [outcome |-> outcome, before |-> speech_token,
                           after |-> speech_token'])
    /\ UNCHANGED <<queueVars, chatVars, silence_log, spoken_fillers,
                   enable_quick_reply, query_log, cognitive_search_endpoint,
                   cognitive_search_api_key, cognitive_search_index_name,
                   chat_initiated, http, calls, intentVars>>

\* refreshSpeechToken, line 252: time.sleep(60 * 9) returns.
RefreshWake ==
    /\ refresher = "sleep"
    /\ refresher' = "post"
    /\ UNCHANGED <<queueVars, chatVars, silence_log, spoken_fillers,
                   enable_quick_reply, query_log, speech_token, refresh_log,
                   cognitive_search_endpoint, cognitive_search_api_key,
                   cognitive_search_index_name, chat_initiated, http, calls,
                   intentVars>>

\* The service after import: the refresh thread is started (lines 485-487),
\* no route has been called, and the search resource is configured as the
\* environment says (lines 31-33).
ServiceInit(endpoint, key, index) ==
    /\ silence_log = <<>>
    /\ spoken_fillers = <<>>
    /\ query_log = <<>>
    /\ speech_token = NoToken
    /\ refresher = "post"
    /\ refresh_log = <<>>
    /\ cognitive_search_endpoint = endpoint
    /\ cognitive_search_api_key = key
    /\ cognitive_search_index_name = index
    /\ chat_initiated = FALSE
    /\ http = Response("", Text(""), 0)
    /\ calls = 0

\* ------------------------------------- the language understanding model
\* intent.LanguageUnderstandingModel(subscription, region, app_id, endpoint)
\* as test_language_understanding_model_constructor expects it: the
\* constructor's code is not among the sources.

BadArguments == "bad arguments"
FromSubscription == "all of subscription key, api id and region must be given"

\* The arguments of a constructor call: each one is None or a string.
LuValues == {None, Some(<<"a">>), Some(<<"b">>)}
LuArguments ==
    [subscription : LuValues, region : LuValues, app_id : LuValues,
     endpoint : LuValues]

\* LanguageUnderstandingModel with the test of app_id against endpoint lost.
LanguageUnderstandingModel_lax(args) ==
    LET subscription == args.subscription.some
        region == args.region.some
        app_id == args.app_id.some
        endpoint == args.endpoint.some
    IN  IF ~subscription /\ ~region /\ ~app_id /\ ~endpoint THEN BadArguments
        ELSE IF \/ subscription # region
                \/ (subscription /\ region /\ ~app_id)
             THEN FromSubscription
             ELSE "ok"

\* How the constructor ends: "ok", or the message of the ValueError.
LanguageUnderstandingModel(args) ==
    LET subscription == args.subscription.some
        region == args.region.some
        app_id == args.app_id.some
        endpoint == args.endpoint.some
    IN  IF ~subscription /\ ~region /\ ~app_id /\ ~endpoint THEN BadArguments
        ELSE IF \/ subscription # region
                \/ (subscription /\ region /\ ~app_id)
             THEN FromSubscription
             ELSE IF app_id /\ endpoint THEN BadArguments
                  ELSE "ok"

\* A test calls the constructor.
Construct ==
    /\ lu_model = "pending"
    /\ lu_model' = LanguageUnderstandingModel(lu_args)
    /\ UNCHANGED <<queueVars, chatVars, serviceVars, lu_args>>

\* No constructor call: the state of these variables in the other
\* specifications.
IntentIdle ==
    /\ lu_args = [subscription |-> None, region |-> None, app_id |-> None,
                  endpoint |-> None]
    /\ lu_model = "pending"

\* ------------------------------------------------- the inputs of SpecChat

Hello == <<"H", "e", "l", "l", "o">>
World == <<" ", "w", "o", "r", "l", "d">>
DocRef == <<"[", "d", "o", "c", "1", "]">>

\* The contents of the deltas of the generated streams.
Contents ==
    {<<"a">>, <<".">>, <<LF>>, <<" ">>, <<IdeographicFullStop>>, DocRef}

\* The events a provider sends in the shape of the mode.
Events(shape) ==
    {Event(shape, "c", c) : c \in Contents}
        \cup {Event(shape, "t", <<"x">>), Event(shape, "n", <<>>)}

RECURSIVE SeqsUpTo(_, _)
SeqsUpTo(S, n) ==
    IF n = 0 THEN {<<>>}
    ELSE LET shorter == SeqsUpTo(S, n - 1)
         IN  shorter \cup {Append(q, e) : q \in shorter, e \in S}

\* A record that is not JSON, and the shape of the other mode: a record
\* whose JSON lacks the keys handleUserQuery reads.
Unparseable == Event("x", "x", <<>>)
OtherShape(shape) == IF shape = "p" THEN "m" ELSE "p"

\* The streams with a story: the greeting of the spec's example; a reply with
\* citations and a tool delta; a document reference split between two
\* deltas; a reply that ends with a multi-byte character and no line break;
\* a reply with two malformed records between its tokens.
NamedStreams(shape) ==
    {<<Event(shape, "r", <<>>), Event(shape, "c", Hello), Event(shape, "c", <<",">>),
       Event(shape, "c", World), Event(shape, "c", <<".">>),
       Event(shape, "c", <<LF>>)>>,
     <<Event(shape, "t", <<"c", "i", "t", "e", "1">>), Event(shape, "r", <<>>),
       Event(shape, "c", <<"A">> \o DocRef \o <<"B">>),
       Event(shape, "c", <<".">>), Event("e", "", <<>>)>>,
     <<Event(shape, "c", <<"[", "d", "o", "c">>), Event(shape, "c", <<"1", "]">>),
       Event(shape, "c", <<".">>)>>,
     <<Event(shape, "c", <<"H", "i", IdeographicFullStop>>),
       Event(shape, "c", <<"o", "k">>)>>,
     <<Event(shape, "c", <<"a">>), Unparseable,
       Event(OtherShape(shape), "c", <<"z">>), Event(shape, "c", <<"b">>)>>}

Streams(shape) == NamedStreams(shape) \cup SeqsUpTo(Events(shape), MaxEvents)

Endings == {"done", "closed", "truncated"}

\* A turn starts with the chat context initialized (chat, lines 213-215),
\* with the speech of an earlier turn still going on or not.
ChatInit ==
    /\ \E configured \in BOOLEAN :
          /\ data_sources = InitialDataSources(configured)
          /\ messages = InitialMessages(configured)
          /\ cognitive_search_endpoint = (IF configured THEN "endpoint" ELSE "")
          /\ cognitive_search_api_key = (IF configured THEN "key" ELSE "")
          /\ cognitive_search_index_name = (IF configured THEN "index" ELSE "")
          /\ \E ok \in BOOLEAN, ending \in Endings,
                events \in Streams(IF configured THEN "m" ELSE "p") :
                provider = [ok |-> ok, events |-> events, ending |-> ending,
                            body |-> Body(events, ending)]
    /\ chat = [pc |-> "idle", error |-> "", user_query |-> UserQuery(1)]
    /\ pos = 0
    /\ chunk_string = <<>>
    /\ yielded = <<>>
    /\ assistant_reply = <<>>
    /\ tool_content = <<>>
    /\ spoken_sentence = <<>>
    /\ flushed = <<>>
    /\ \E speaking \in BOOLEAN :
          /\ is_speaking = speaking
          /\ spoken_text_queue = IF speaking THEN <<<<"o", "l", "d">>>> ELSE <<>>
          /\ threads = IF speaking
                       THEN <<[pc |-> "speak", text |-> <<"o", "l", "d">>,
                               ending_silence_ms |-> 0]>>
                       ELSE <<>>
    /\ last_speak_time = 0
    /\ req = [pc |-> "idle", ending_silence_ms |-> 0]
    /\ enqueued = <<>>
    /\ popped = <<>>
    /\ synth_log = <<>>
    /\ stop_log = <<>>
    /\ synth_failed = FALSE
    /\ silence_log = <<>>
    /\ spoken_fillers = <<>>
    /\ enable_quick_reply = EnableQuickReplyDefault
    /\ query_log = <<>>
    /\ speech_token = NoToken
    /\ refresher = "post"
    /\ refresh_log = <<>>
    /\ chat_initiated = TRUE
    /\ http = Response("chat", Text("stream"), 200)
    /\ calls = 1
    /\ IntentIdle

vars == <<queueVars, chatVars, serviceVars, intentVars>>

Init ==
    /\ QueueInit
    /\ ChatIdle
    /\ ServiceInit("", "", "")
    /\ enable_quick_reply = EnableQuickReplyDefault
    /\ IntentIdle

\* A request thread calls speakWithQueue with the next text (the texts of
\* Spec are numbered in call order: the k-th call passes k), any thread calls
\* stopSpeakingInternal, a new turn of handleUserQuery starts, or a
\* speakThread takes a step.
Next ==
    \/ \E silence \in Silences : Append_text(Len(enqueued) + 1, silence)
    \/ StartIfNotSpeaking
    \/ StopSpeakingInternal
    \/ StopPreviousSpeaking
    \/ \E i \in Threads : ThreadBegin(i)
    \/ \E i \in Threads : ThreadTest(i)
    \/ \E i \in Threads : ThreadPop(i)
    \/ \E i \in Threads : ThreadCall(i)
    \/ \E i \in Threads : ThreadReturn(i)
    \/ \E i \in Threads : ThreadClear(i)

Spec == Init /\ [][Next]_vars

\* One chat turn against every response of the provider and every way the
\* iterator may cut the body into chunks.  The speakThread threads the turn
\* starts take their steps in Spec.
NextChat ==
    \/ ChatBegin
    \/ ReadChunk
    \/ ReadMore
    \/ ChatFinish

SpecChat == ChatInit /\ [][NextChat]_vars

\* The streams of the turns of SpecSession: a reply of one token.
SessionStreams(shape) == {<<Event(shape, "c", <<"a">>)>>}

\* The values of a setting of the search resource: not set, or set.
SearchSettings == {"", "set"}

SessionInit ==
    /\ QueueInit
    /\ ChatIdle
    /\ \E endpoint \in SearchSettings, key \in SearchSettings,
          index \in SearchSettings : ServiceInit(endpoint, key, index)
    /\ enable_quick_reply \in BOOLEAN
    /\ IntentIdle

\* The data sources the next turn's request will carry.
NextTurnHasDataSources ==
    IF chat_initiated THEN DataSourcesConfigured ELSE SearchConfigured

\* A session: the client calls chat, clearChatHistory and connectAvatar, and
\* the turn a chat call started takes its steps.
NextSession ==
    \/ \E system_prompt \in Prompts, ok \in BOOLEAN,
          events \in SessionStreams(IF NextTurnHasDataSources THEN "m" ELSE "p") :
          Chat(system_prompt, UserQuery(calls + 1),
               [ok |-> ok, events |-> events, ending |-> "done",
                body |-> Body(events, "done")])
    \/ ChatBegin
    \/ ReadChunk
    \/ ReadMore
    \/ ChatFinish
    \/ \E system_prompt \in Prompts : ClearChatHistory(system_prompt)
    \/ \E index_header \in SearchSettings : ConnectAvatar(index_header, "none")

SpecSession == SessionInit /\ [][NextSession]_vars

\* The service: the token refresh thread takes its steps and the client
\* calls getSpeechToken, speak and connectAvatar.
NextService ==
    \/ \E outcome \in RefreshOutcomes : RefreshPost(outcome)
    \/ RefreshWake
    \/ GetSpeechToken
    \/ \E fail \in SpeakFailures : Speak(fail)
    \/ \E index_header \in SearchSettings, fail \in ConnectFailures :
          ConnectAvatar(index_header, fail)

SpecService == Init /\ [][NextService]_vars

\* The constructor of LanguageUnderstandingModel on every combination of
\* arguments.
IntentInit ==
    /\ QueueInit
    /\ ChatIdle
    /\ ServiceInit("", "", "")
    /\ enable_quick_reply = EnableQuickReplyDefault
    /\ lu_args \in LuArguments
    /\ lu_model = "pending"

NextIntent == Construct

SpecIntent == IntentInit /\ [][NextIntent]_vars

\* ------------------------------------------------------------ properties

IsPrefix(p, q) == Len(p) <= Len(q) /\ SubSeq(q, 1, Len(p)) = p

\* The texts of the synthesis calls, in the order the calls started.
SynthTexts == [i \in 1..Len(synth_log) |-> synth_log[i].text]

\* No request is inside speakWithQueue and no speakThread is alive: only a
\* new request can change the state.
Quiescent == req.pc = "idle" /\ Alive = {}

\* C1: the synthesis calls are made in the order the texts were enqueued, and
\* no two synthesis calls are in flight at the same time.
C1_FifoNoOverlap ==
    /\ Cardinality(InFlight) <= 1
    /\ stop_log = <<>> => IsPrefix(SynthTexts, enqueued)

\* C2: at most one speakThread is alive in every reachable state.
C2_AtMostOneWorker == Cardinality(Alive) <= 1

\* C3: after a stop followed by speakWithQueue(X), once the threads have run
\* to their end, exactly one text has been taken from the queue and
\* synthesized since the stop, and it is X.
C3_StopThenEnqueue ==
    (/\ Len(stop_log) = 1
     /\ stop_log[1].req = "idle"
     /\ Len(enqueued) = stop_log[1].enqueued + 1
     /\ Quiescent
     /\ ~synth_failed)
    => /\ SubSeq(popped, stop_log[1].popped + 1, Len(popped))
             = <<enqueued[Len(enqueued)]>>
       /\ synth_log # <<>>
       /\ synth_log[Len(synth_log)].text = enqueued[Len(enqueued)]

\* C4: with no stop and no failed synthesis call, once the threads have run
\* to their end every enqueued text has been synthesized: no text is left in
\* the queue with no speakThread alive.
C4_EveryTextSynthesized ==
    (Quiescent /\ stop_log = <<>> /\ ~synth_failed)
    => /\ spoken_text_queue = <<>>
       /\ Len(synth_log) = Len(enqueued)
       /\ \A k \in 1..Len(enqueued) :
              \E i \in 1..Len(synth_log) : synth_log[i].text = enqueued[k]

\* The turn has ended: handleUserQuery returned or raised.
TurnEnded == chat.pc \in {"done", "raised"}

\* The display tokens of a body that arrives as a single chunk.
UnsplitTokens ==
    ProcessLines(DataSourcesConfigured,
                 [yielded |-> <<>>, assistant_reply |-> <<>>,
                  tool_content |-> <<>>, spoken_sentence |-> <<>>,
                  calls |-> <<>>, found |-> <<>>, error |-> ""],
                 Split(Decode(provider.body).text)).yielded

\* The contents of the well-formed events that have one, in stream order.
DeltaContents ==
    LET with == SelectSeq(provider.events,
                          LAMBDA ev : ev.shape = "p" /\ ev.tag \in {"c", "t"})
    IN  [i \in 1..Len(with) |-> with[i].content]

\* C5: for a response that ends with the end marker, every way of cutting
\* the body into chunks yields the same display tokens, those of the uncut
\* body, which without data sources are the contents of the deltas in stream
\* order; no cut makes the turn fail.
C5_ChunkingIndependent ==
    (provider.ok /\ provider.ending = "done")
    => /\ IsPrefix(yielded, UnsplitTokens)
       /\ ~DataSourcesConfigured => UnsplitTokens = DeltaContents
       /\ TurnEnded => chat.pc = "done" /\ yielded = UnsplitTokens

\* The stream of the spec's example and its one sentence.
GreetingContents == <<Hello, <<",">>, World, <<".">>, <<LF>>>>
GreetingSentence == Hello \o <<",">> \o World \o <<".">>

\* C6: the tokens "Hello", ",", " world", ".", line feed enqueue exactly one
\* sentence, "Hello, world."; and every speakWithQueue call of a turn comes
\* from a flush that found the sentence buffer non-empty.
C6_OneSentencePerFlush ==
    /\ (chat.pc = "done" /\ yielded = GreetingContents)
           => enqueued = <<GreetingSentence>>
    /\ \A i \in 1..Len(flushed) : flushed[i] # <<>>

\* C7: a refused response yields no display token, enqueues no sentence and
\* makes the turn raise before a byte of the body is read.
C7_RefusedYieldsNothing ==
    (~provider.ok /\ chat.pc # "idle")
    => /\ chat.pc = "raised"
       /\ chat.error = "Exception"
       /\ yielded = <<>>
       /\ enqueued = <<>>
       /\ flushed = <<>>
       /\ pos = 0

\* C7's case: a refused response with events in its body has been answered.
C7_Witness ==
    /\ ~provider.ok
    /\ provider.events # <<>>
    /\ chat.pc = "raised"

\* C8: for an accepted response, however the body is cut into chunks and
\* however the stream ends, the turn ends with the stream exhausted, the
\* sentence buffer flushed and the assistant message, holding the whole
\* reply, appended last.
C8_ExhaustedTurnCompletes ==
    (provider.ok /\ TurnEnded)
    => /\ chat.pc = "done"
       /\ pos = Len(provider.body)
       /\ spoken_sentence = <<>>
       /\ messages[Len(messages)]
             = [role |-> "assistant", content |-> assistant_reply]
       /\ assistant_reply = Concat(yielded)

\* The tool deltas of the stream and the characters of their contents.
ToolEvents == SelectSeq(provider.events, LAMBDA ev : ev.tag = "t")
CharsOf(text) == {text[i] : i \in 1..Len(text)}
ToolChars == UNION {CharsOf(ToolEvents[i].content) : i \in 1..Len(ToolEvents)}

C10_NoDocReference ==
    DataSourcesConfigured
    => /\ \A i \in 1..Len(yielded) : ~DocSearch(yielded[i])
       /\ \A i \in 1..Len(enqueued) : ~DocSearch(enqueued[i])

\* The history and the data sources are those of a context just initialized
\* with the prompt, the three settings of the search resource being as they
\* are.
FreshContext(system_prompt) ==
    IF /\ cognitive_search_endpoint # ""
       /\ cognitive_search_api_key # ""
       /\ cognitive_search_index_name # ""
    THEN /\ messages = <<>>
         /\ data_sources = <<[roleInformation |-> system_prompt]>>
    ELSE /\ data_sources = <<>>
         /\ messages = <<[role |-> "system", content |-> system_prompt]>>

\* C11: whatever the session was, a step that runs initializeChatContext
\* (clearChatHistory, or the first chat call) leaves an empty data_sources
\* and the history [system: prompt] when the search endpoint, key and index
\* name are not all set, and an empty history and one data source with
\* roleInformation = prompt when they are.
C11_ResetPostcondition ==
    [][/\ \A system_prompt \in Prompts :
              ClearChatHistory(system_prompt) => FreshContext(system_prompt)'
       /\ (~chat_initiated /\ chat_initiated' /\ http'.route = "chat")
              => \E system_prompt \in Prompts : FreshContext(system_prompt)'
      ]_vars

\* C11's case: the history has been cleared after a turn ended, with the
\* search resource configured, and before that without it.
C11_Witness ==
    /\ http.route = "clearHistory"
    /\ chat.pc = "done"
    /\ messages = <<>>
    /\ data_sources # <<>>
    /\ provider.events[1].shape = "p"

\* The texts taken from the queue after a point of the history were all
\* enqueued after it (the k-th speakWithQueue call enqueues the text k).
NothingOlderSpoken(point) ==
    \A j \in (point.popped + 1)..Len(popped) : popped[j] > point.enqueued

\* C12: no text that was waiting in the queue when a new user query began, or
\* when a stop was requested, is taken from the queue and synthesized after
\* it.
C12_PendingDiscarded ==
    /\ \A i \in 1..Len(query_log) : NothingOlderSpoken(query_log[i])
    /\ \A i \in 1..Len(stop_log) : NothingOlderSpoken(stop_log[i])

\* The shape of the events of the turn's mode, the malformed records of the
\* stream, and the contents of its well-formed content deltas.
ModeShape == IF DataSourcesConfigured THEN "m" ELSE "p"
Malformed(ev) == ev.shape \notin {"e", ModeShape}
MalformedEvents == SelectSeq(provider.events, Malformed)
WellFormedContents ==
    LET good == SelectSeq(provider.events,
                          LAMBDA ev : ev.shape = ModeShape /\ ev.tag = "c")
    IN  [i \in 1..Len(good) |-> good[i].content]

\* C13: in a stream with malformed records that ends with the end marker,
\* the tokens of the well-formed records before and after them are all
\* yielded, in order, and the turn ends by appending the assistant message.
C13_MalformedSkipped ==
    (provider.ok /\ provider.ending = "done" /\ MalformedEvents # <<>>)
    => /\ IsPrefix(yielded, WellFormedContents)
       /\ TurnEnded =>
             /\ chat.pc = "done"
             /\ yielded = WellFormedContents
             /\ messages[Len(messages)]
                   = [role |-> "assistant",
                      content |-> Concat(WellFormedContents)]

\* C13's case: a turn over a stream with a record that is not JSON and a
\* record that lacks the keys has ended, with a token yielded before them
\* and one after.
C13_Witness ==
    /\ Len(MalformedEvents) = 2
    /\ chat.pc = "done"
    /\ Len(yielded) = 2

\* C14: a call of getSpeechToken made when the last call of the token
\* endpoint has failed (no response, or a response that is not a success)
\* returns the token that was stored before that call.
C14_FailedRefreshKeepsToken ==
    [][(/\ GetSpeechToken
        /\ refresh_log # <<>>
        /\ refresh_log[Len(refresh_log)].outcome # "issued")
       => http'.body = refresh_log[Len(refresh_log)].before]_vars

\* C15: the refresh thread never stops: whatever the outcomes of its calls
\* of the token endpoint, it is at the call or asleep until the next one.
C15_RefreshNeverStops == refresher \in {"post", "sleep"}

\* C16: a call of speak or connectAvatar ends with a response, 200 or, after
\* a failure at whatever step, 400 with the error text: no exception leaves
\* the route.
C16_FailureAnswers400 ==
    http.route \in {"speak", "connectAvatar"} => http.status \in {200, 400}

\* C17: when a synthesis call for a queued text ends canceled with an error,
\* the caller that enqueued the text observes a failure: the call of
\* speakWithQueue or the chat turn ends with the exception.
C17_SynthesisFailurePropagates ==
    synth_failed => (req.pc = "raised" \/ chat.pc = "raised")

\* C19: a step of stopSpeakingInternal leaves the queue empty and
\* is_speaking false.
C19_StopForcesState ==
    [][StopSpeakingInternal
       => (spoken_text_queue' = <<>> /\ is_speaking' = FALSE)]_vars

\* C20: is_speaking is never true with no speakThread alive, so that it
\* goes back to false once the queue is drained, also after a stop or a
\* failed synthesis call.
C20_SpeakingHasWorker == is_speaking => Alive # {}

\* The arguments given to the constructor call.
Given == {name \in DOMAIN lu_args : lu_args[name].some}

\* A subscription or a region is given, but not all three of subscription,
\* region and app id.
PartialSubscription ==
    /\ Given \cap {"subscription", "region"} # {}
    /\ ~({"subscription", "region", "app_id"} \subseteq Given)

\* C18: the constructor succeeds exactly with only an endpoint, only an app
\* id, or subscription, region and app id; with no argument or with both an
\* endpoint and an app id it raises "bad arguments"; with a subscription or
\* region but not all three it raises "all of subscription key, api id and
\* region must be given"; where both conditions of failure hold, either.
C18_ConstructorArguments ==
    lu_model # "pending"
    => /\ lu_model = "ok"
             <=> Given \in {{"endpoint"}, {"app_id"},
                            {"subscription", "region", "app_id"}}
       /\ lu_model \in {"ok", BadArguments, FromSubscription}
       /\ (Given = {} \/ {"endpoint", "app_id"} \subseteq Given)
             /\ ~PartialSubscription
          => lu_model = BadArguments
       /\ PartialSubscription /\ ~({"endpoint", "app_id"} \subseteq Given)
          => lu_model = FromSubscription

\* C18's case: the constructor has been called with subscription, region and
\* app id.
C18_Witness ==
    /\ lu_model = "ok"
    /\ Given = {"subscription", "region", "app_id"}

\* speakText, lines 455-461: the markup gets a <break time=...> element
\* after the text exactly when the ending_silence_ms it is called with is
\* positive.
TrailingPause(ending_silence_ms) == ending_silence_ms > 0

\* C21: every text is synthesized with the trailing silence of the
\* speakWithQueue call that enqueued it: its markup has the trailing pause
\* exactly when that call's own ending_silence_ms is positive, whichever call
\* started the speakThread.  (The k-th call of Spec enqueues the text k.)
C21_OwnTrailingSilence ==
    \A i \in 1..Len(synth_log) :
        TrailingPause(synth_log[i].ending_silence_ms)
            <=> silence_log[synth_log[i].text] > 0

\* C22: a turn that starts with data sources configured and the quick reply
\* option on gives exactly one filler, one of quick_replies, to the speech
\* output and goes on to the completion request; a turn that starts with
\* the option off or without a data source gives none.
C22_QuickReplySpoken ==
    [][ChatBegin
       => IF DataSourcesConfigured /\ enable_quick_reply
          THEN /\ Len(spoken_fillers') = Len(spoken_fillers) + 1
               /\ spoken_fillers'[Len(spoken_fillers')] \in quick_replies
               /\ chat'.error # "TypeError"
          ELSE spoken_fillers' = spoken_fillers]_vars

\* A tool message is in the history, and a tool delta of the turn's mode is
\* in the stream of a turn with data sources.
ToolMessageAppended == \E i \in 1..Len(messages) : messages[i].role = "tool"
ToolDeltaReceived ==
    /\ DataSourcesConfigured
    /\ \E i \in 1..Len(provider.events) :
          provider.events[i].shape = ModeShape /\ provider.events[i].tag = "t"

\* C23: when a turn has ended, a tool message has been appended exactly if a
\* delta with role "tool" was received in it: a turn with data sources and
\* no tool delta appends no tool message.
C23_ToolMessageIffToolDelta ==
    chat.pc = "done" => (ToolMessageAppended <=> ToolDeltaReceived)

\* A step in which initializeChatContext runs: a clearChatHistory call, or
\* the first chat call.
ContextReset ==
    \/ \E system_prompt \in Prompts : ClearChatHistory(system_prompt)
    \/ ~chat_initiated /\ chat_initiated'

\* The request a user message of the history came with.
RequestOf(message) == Len(message.content) - 1
UserMessages(history) == SelectSeq(history, LAMBDA m : m.role = "user")

\* C24: a step that is no reset leaves the history as a prefix of the new
\* history; a turn appends the user message when it starts and, when it
\* ends, the tool message, if there is one, and then the assistant message;
\* and the user messages of the history are in the order in which their
\* requests arrived.
C24_HistoryAppendOnly ==
    [][/\ ~ContextReset => IsPrefix(messages, messages')
       /\ ChatBegin
          => messages' = Append(messages, [role |-> "user",
                                           content |-> chat.user_query])
       /\ ChatFinish
          => \E tail \in {<<[role |-> "assistant", content |-> assistant_reply]>>,
                          <<[role |-> "tool", content |-> tool_content],
                            [role |-> "assistant", content |-> assistant_reply]>>} :
                messages' = messages \o tail
       /\ LET users == UserMessages(messages')
          IN  \A i \in 1..Len(users), j \in 1..Len(users) :
                 i < j => RequestOf(users[i]) < RequestOf(users[j])]_vars

\* C24's case: two turns have been completed one after the other with no
\* reset between them, the second with a tool message.
C24_Witness ==
    /\ chat.pc = "done"
    /\ Len(UserMessages(messages)) = 2
    /\ Len(messages) >= 6
    /\ messages[Len(messages) - 1].role = "tool"
    /\ messages[Len(messages)].role = "assistant"

\* C25: whenever a speakThread pops, the queue holds a text: no step of
\* line 438 finds the queue empty and ends the thread with IndexError,
\* however a stopSpeakingInternal call falls between the thread's test and
\* its pop.
C25_PopFindsText ==
    [][\A i \in Threads : ThreadPop(i) => spoken_text_queue # <<>>]_vars

=============================================================================
